---- MODULE Spec2Model ----
(***************************************************************************)
(* Model of the transliteration engine of src/src/transliterate.rs:        *)
(* Transliterate::process, process_word, digraph_exception and             *)
(* chars_to_utf8.  A char is its Unicode scalar value, a str / Vec<u8> is  *)
(* a sequence of bytes, a [char] is a sequence of scalar values.           *)
(*                                                                         *)
(* The module `charmaps` (LATIN_CLEAN, LATIN_DIRTY, CYRILLIC_CLEAN,        *)
(* CYRILLIC_DIRTY, DIGRAPH_EXCEPTIONS) is not part of the available        *)
(* sources.  Its tables are modelled here by a small excerpt: the letters  *)
(* a, n, j, N, J, the digraph nj / Nj, its denormalized spellings NJ and   *)
(* U+01CC, and one Exception Entry for that digraph.  The variable         *)
(* charmaps selects the table data: "regular", or "oversized", which adds  *)
(* one entry whose target needs more than four bytes per source byte.      *)
(***************************************************************************)
EXTENDS Integers, Sequences, FiniteSets, TLC

VARIABLES
    charmaps,    \* which table data the build carries: "regular" or "oversized"
    direction,   \* self.direction
    input,       \* the argument of process, as its chars
    pc,          \* position in process: "start", "next", "scan", "done"
    words,       \* input.split_whitespace(), collected
    wi,          \* number of words taken from the iterator so far
    chars,       \* process_word: chars of the current word
    out,         \* process_word: the zero-filled output buffer
    cursor_in,   \* process_word: cursor_in
    cursor_out,  \* process_word: cursor_out
    output,      \* process: the String being assembled, as its chars
    ret,         \* what process returned
    last         \* history: the last step of the process_word loop

vars == <<charmaps, direction, input, pc, words, wi, chars, out, cursor_in,
          cursor_out, output, ret, last>>

----------------------------------------------------------------------------
(* Bounds of the model *)

\* longest input of process, in chars
MaxLen == 4
\* longest input of process under the oversized table, in chars
MaxLenOversized == 3

----------------------------------------------------------------------------
(* Characters (Unicode scalar values) *)

SPACE == 32
DIGIT_1 == 49
LAT_a == 97
LAT_n == 110
LAT_j == 106
LAT_N == 78
LAT_J == 74
\* U+01CC, the single-char ligature of nj
LAT_nj == 460
CYR_a == 1072
CYR_n == 1085
CYR_j == 1112
CYR_N == 1053
CYR_J == 1032
\* U+045A and U+040A, the Cyrillic letter for nj / Nj
CYR_nj == 1114
CYR_NJ == 1034

LatinAlphabet == {LAT_a, LAT_n, LAT_j, LAT_N, LAT_J, LAT_nj, DIGIT_1, SPACE}
CyrillicAlphabet == {CYR_a, CYR_n, CYR_j, CYR_N, CYR_nj, DIGIT_1, SPACE}

----------------------------------------------------------------------------
(* Primitive operations of char, str and slices *)

\* char::len_utf8
len_utf8(c) ==
    IF c < 128 THEN 1 ELSE IF c < 2048 THEN 2 ELSE IF c < 65536 THEN 3 ELSE 4

\* char::encode_utf8: the bytes of one char
encode_utf8(c) ==
    IF c < 128 THEN <<c>>
    ELSE IF c < 2048 THEN <<192 + (c \div 64), 128 + (c % 64)>>
    ELSE IF c < 65536 THEN
        <<224 + (c \div 4096), 128 + ((c \div 64) % 64), 128 + (c % 64)>>
    ELSE <<240 + (c \div 262144), 128 + ((c \div 4096) % 64),
           128 + ((c \div 64) % 64), 128 + (c % 64)>>

RECURSIVE Utf8Bytes(_)
\* the UTF-8 encoding of a char sequence (what &str holds, str::as_bytes)
Utf8Bytes(s) ==
    IF s = <<>> THEN <<>> ELSE encode_utf8(Head(s)) \o Utf8Bytes(Tail(s))

\* str::len: the length of a string in bytes
StrLen(s) == Len(Utf8Bytes(s))

\* String::from_utf8: [ok, val]; ok is FALSE for a malformed byte sequence
RECURSIVE from_utf8(_)
from_utf8(b) ==
    IF b = <<>> THEN [ok |-> TRUE, val |-> <<>>]
    ELSE
        LET h == Head(b)
            n == IF h < 128 THEN 1 ELSE IF h >= 192 /\ h < 224 THEN 2
                 ELSE IF h >= 224 /\ h < 240 THEN 3
                 ELSE IF h >= 240 /\ h < 248 THEN 4 ELSE 0
            cont == n > 0 /\ Len(b) >= n
                    /\ \A k \in 2..n : b[k] >= 128 /\ b[k] < 192
            c == IF n = 1 THEN h
                 ELSE IF n = 2 THEN (h - 192) * 64 + (b[2] - 128)
                 ELSE IF n = 3 THEN
                     (h - 224) * 4096 + (b[2] - 128) * 64 + (b[3] - 128)
                 ELSE (h - 240) * 262144 + (b[2] - 128) * 4096
                      + (b[3] - 128) * 64 + (b[4] - 128)
        IN  IF ~cont \/ len_utf8(c) # n THEN [ok |-> FALSE, val |-> <<>>]
            ELSE LET r == from_utf8(SubSeq(b, n + 1, Len(b)))
                 IN  [ok |-> r.ok, val |-> IF r.ok THEN <<c>> \o r.val ELSE <<>>]

\* char::is_whitespace (the Unicode White_Space property)
is_whitespace(c) ==
    c \in ({32, 133, 160, 5760, 8232, 8233, 8239, 8287, 12288}
           \cup (9..13) \cup (8192..8202))

\* char::to_lowercase, an iterator of chars: ASCII and basic Cyrillic
\* capitals fold to their small letters, U+0400..U+040F to U+0450..U+045F
to_lowercase(c) ==
    IF c >= 65 /\ c <= 90 THEN <<c + 32>>
    ELSE IF c >= 1040 /\ c <= 1071 THEN <<c + 32>>
    ELSE IF c >= 1024 /\ c <= 1039 THEN <<c + 80>>
    ELSE <<c>>

\* slice::starts_with
starts_with(s, p) == Len(p) <= Len(s) /\ SubSeq(s, 1, Len(p)) = p

\* bmh::find(haystack, needle).is_some(): needle occurs in haystack
find(haystack, needle) ==
    \E k \in 0..(Len(haystack) - Len(needle)) :
        SubSeq(haystack, k + 1, k + Len(needle)) = needle

RECURSIVE split_whitespace(_)
\* str::split_whitespace: the maximal runs of non-whitespace chars, in order
split_whitespace(s) ==
    IF s = <<>> THEN <<>>
    ELSE IF is_whitespace(Head(s)) THEN split_whitespace(Tail(s))
    ELSE
        LET stops == {k \in 1..Len(s) : is_whitespace(s[k])}
            n == IF stops = {} THEN Len(s)
                 ELSE (CHOOSE k \in stops : \A m \in stops : k <= m) - 1
        IN  <<SubSeq(s, 1, n)>> \o split_whitespace(SubSeq(s, n + 1, Len(s)))

\* a zero-filled Vec<u8> of n bytes (Vec::resize(n, 0))
Zeroes(n) == [k \in 1..n |-> 0]

----------------------------------------------------------------------------
(* The tables of the module charmaps *)

\* charmaps::LATIN_CLEAN: the canonical Latin symbol sequences
LATIN_CLEAN ==
    << <<LAT_a>>, <<LAT_n>>, <<LAT_j>>, <<LAT_N>>, <<LAT_J>>,
       <<LAT_n, LAT_j>>, <<LAT_N, LAT_j>> >>

\* charmaps::CYRILLIC_CLEAN: the canonical Cyrillic symbol sequences,
\* index by index the counterparts of LATIN_CLEAN
CYRILLIC_CLEAN ==
    << <<CYR_a>>, <<CYR_n>>, <<CYR_j>>, <<CYR_N>>, <<CYR_J>>,
       <<CYR_nj>>, <<CYR_NJ>> >>

\* an entry that breaks the sizing assumption of process_word (at most four
\* output bytes per input byte): one ASCII letter, six bytes of output
OversizedLatin == << <<LAT_a>> >>
OversizedCyrillic == << <<CYR_a, CYR_a, CYR_a>> >>

\* charmaps::LATIN_DIRTY: the canonical sequences, then the denormalized
\* spellings NJ and U+01CC of the digraph
LATIN_DIRTY ==
    LATIN_CLEAN \o << <<LAT_N, LAT_J>>, <<LAT_nj>> >>
    \o (IF charmaps = "oversized" THEN OversizedLatin ELSE <<>>)

\* charmaps::CYRILLIC_DIRTY: index by index the targets of LATIN_DIRTY
CYRILLIC_DIRTY ==
    CYRILLIC_CLEAN \o << <<CYR_NJ>>, <<CYR_nj>> >>
    \o (IF charmaps = "oversized" THEN OversizedCyrillic ELSE <<>>)

\* charmaps::DIGRAPH_EXCEPTIONS: the spellings of nj that a marked word
\* writes as two letters, their two-letter renderings, and the markers.
\* The first three alternatives are as long as their renderings; the last,
\* the one-char ligature, is the alternative whose rendering differs in
\* length from its source.  The marker stands for markers such as "anjon".
DIGRAPH_EXCEPTIONS ==
    << [latin |-> << <<LAT_n, LAT_j>>, <<LAT_N, LAT_j>>,
                     <<LAT_N, LAT_J>>, <<LAT_nj>> >>,
        cyrillic |-> << <<CYR_n, CYR_j>>, <<CYR_N, CYR_j>>,
                        <<CYR_N, CYR_J>>, <<CYR_n, CYR_j>> >>,
        exceptions |-> << <<LAT_a, LAT_n, LAT_j>> >>] >>

\* the source table process_word scans in a direction (lines 108-111)
TableSrc(dir) ==
    IF dir = "LatinToCyrillic" THEN LATIN_DIRTY ELSE CYRILLIC_CLEAN

\* the target table process_word emits from in a direction (lines 127-130)
TableDst(dir) ==
    IF dir = "LatinToCyrillic" THEN CYRILLIC_DIRTY ELSE LATIN_CLEAN

----------------------------------------------------------------------------
(* Transliterate::chars_to_utf8 *)

\* an encoder that stops at the first char that does not fit and reports
\* the bytes written so far as a success
chars_to_utf8_truncating(inp, buf, from) ==
    LET room == Len(buf) - from
        fit == CHOOSE k \in 0..Len(inp) :
                   /\ StrLen(SubSeq(inp, 1, k)) <= room
                   /\ \A m \in (k + 1)..Len(inp) :
                          StrLen(SubSeq(inp, 1, m)) > room
        bytes == Utf8Bytes(SubSeq(inp, 1, fit))
    IN  [err |-> FALSE,
         n   |-> Len(bytes),
         buf |-> [k \in 1..Len(buf) |->
                     IF k > from /\ k <= from + Len(bytes)
                     THEN bytes[k - from] ELSE buf[k]]]

\* chars_to_utf8(inp, &mut buf[from..]): the chars are encoded one by one;
\* the first char whose bytes do not fit ends the call with BufferOverflow,
\* after the chars before it were written.  n is the Ok value.
chars_to_utf8(inp, buf, from) ==
    LET room == Len(buf) - from
        fit == CHOOSE k \in 0..Len(inp) :
                   /\ StrLen(SubSeq(inp, 1, k)) <= room
                   /\ \A m \in (k + 1)..Len(inp) :
                          StrLen(SubSeq(inp, 1, m)) > room
        bytes == Utf8Bytes(SubSeq(inp, 1, fit))
    IN  [err |-> fit < Len(inp),
         n   |-> Len(bytes),
         buf |-> [k \in 1..Len(buf) |->
                     IF k > from /\ k <= from + Len(bytes)
                     THEN bytes[k - from] ELSE buf[k]]]

----------------------------------------------------------------------------
(* Transliterate::digraph_exception *)

RECURSIVE LowercaseChars(_)
\* the chars of letter.to_lowercase() for every letter of the word, in order
LowercaseChars(word) ==
    IF word = <<>> THEN <<>>
    ELSE to_lowercase(Head(word)) \o LowercaseChars(Tail(word))

\* a Disambiguator that searches the word as written, without case folding
LowercaseAsWritten(word) ==
    chars_to_utf8(word, Zeroes(Len(word) * 4), 0)

\* lines 80-87: the buffer `lowercase` of word.len() * 4 zero bytes with the
\* lowercased word written to its front; err when a char did not fit
Lowercase(word) ==
    chars_to_utf8(LowercaseChars(word), Zeroes(Len(word) * 4), 0)

\* the (exception, alternative) pairs the two loops visit (lines 77-79)
\* whose alternative equals `character`
Alternatives(character) ==
    UNION {{<<e, i>> : i \in {k \in DOMAIN DIGRAPH_EXCEPTIONS[e].latin :
                                DIGRAPH_EXCEPTIONS[e].latin[k] = character}} :
           e \in DOMAIN DIGRAPH_EXCEPTIONS}

\* lines 88-91: a marker of the exception occurs in the lowercased word
MarkerFound(word, e) ==
    \E m \in DOMAIN DIGRAPH_EXCEPTIONS[e].exceptions :
        find(Lowercase(word).buf, Utf8Bytes(DIGRAPH_EXCEPTIONS[e].exceptions[m]))

\* digraph_exception(word, character): Err(BufferOverflow), Ok(Some(val))
\* for the first pair in table order whose marker is found, or Ok(None)
digraph_exception(word, character) ==
    LET alts == Alternatives(character)
        hits == {h \in alts : MarkerFound(word, h[1])}
        first == CHOOSE h \in hits : \A g \in hits :
                     h[1] < g[1] \/ (h[1] = g[1] /\ h[2] <= g[2])
    IN  IF alts # {} /\ Lowercase(word).err
        THEN [err |-> TRUE, some |-> FALSE, val |-> <<>>]
        ELSE IF hits = {}
        THEN [err |-> FALSE, some |-> FALSE, val |-> <<>>]
        ELSE [err |-> FALSE, some |-> TRUE,
              val |-> DIGRAPH_EXCEPTIONS[first[1]].cyrillic[first[2]]]

----------------------------------------------------------------------------
(* Transliterate::process_word *)

\* chars[cursor_in..]
Rest(word, cin) == SubSeq(word, cin + 1, Len(word))

\* lines 108-116: the entries of the direction's source table that match at
\* the cursor
Matching(dir, word, cin) ==
    {i \in DOMAIN TableSrc(dir) : starts_with(Rest(word, cin), TableSrc(dir)[i])}

\* a scan that meets the entries in registration order, first entry first
LookupForward(dir, word, cin) ==
    LET ms == Matching(dir, word, cin)
    IN  IF ms = {} THEN 0 ELSE CHOOSE i \in ms : \A k \in ms : i <= k

\* lines 112-116: .iter().enumerate().rev() meets the matching entry of
\* the highest index first; 0 when no entry matches
Lookup(dir, word, cin) ==
    LET ms == Matching(dir, word, cin)
    IN  IF ms = {} THEN 0 ELSE CHOOSE i \in ms : \A k \in ms : k <= i

\* lines 120-122: the override is emitted and cursor_in grows by
\* exception.len(), the length of the override
OverrideStep(c, exception) ==
    [kind |-> "override", err |-> FALSE, src |-> c, emit |-> exception,
     adv |-> Len(exception)]

\* a table match that moves the cursor by one char whatever was matched
MatchStepByOne(dir, i) ==
    [kind |-> "match", err |-> FALSE, src |-> TableSrc(dir)[i],
     emit |-> TableDst(dir)[i], adv |-> 1]

\* lines 126-134: the target of entry i is emitted and cursor_in grows by
\* c.len(), the length of the matched source sequence
MatchStep(dir, i) ==
    [kind |-> "match", err |-> FALSE, src |-> TableSrc(dir)[i],
     emit |-> TableDst(dir)[i], adv |-> Len(TableSrc(dir)[i])]

\* a pass-through that moves the cursor and writes nothing
PassStepSilent(word, cin) ==
    [kind |-> "pass", err |-> FALSE, src |-> <<word[cin + 1]>>,
     emit |-> <<>>, adv |-> 1]

\* lines 137-138: the char at the cursor is emitted and cursor_in grows by 1
PassStep(word, cin) ==
    [kind |-> "pass", err |-> FALSE, src |-> <<word[cin + 1]>>,
     emit |-> <<word[cin + 1]>>, adv |-> 1]

\* lines 108-138: one pass of the 'outer loop body at cursor cin: what is
\* matched (src), what is handed to chars_to_utf8 (emit) and by how much
\* cursor_in grows (adv); err when digraph_exception failed
Step(dir, word, cin) ==
    LET i == Lookup(dir, word, cin)
        c == TableSrc(dir)[i]
        ex == digraph_exception(word, c)
    IN  IF i = 0 THEN PassStep(word, cin)
        ELSE IF dir = "LatinToCyrillic" /\ ex.err
        THEN [kind |-> "match", err |-> TRUE, src |-> c, emit |-> <<>>,
              adv |-> 0]
        ELSE IF dir = "LatinToCyrillic" /\ ex.some
        THEN OverrideStep(c, ex.val)
        ELSE MatchStep(dir, i)

\* Result<String, Error> values
Ok(s) == [tag |-> "Ok", err |-> "", val |-> s]
Err(e) == [tag |-> "Err", err |-> e, val |-> <<>>]
NotReturned == [tag |-> "none", err |-> "", val |-> <<>>]

\* lines 140-142: out.resize(cursor_out, 0); String::from_utf8(out)?
FinishWord(buf, cout) ==
    LET d == from_utf8(SubSeq(buf, 1, cout))
    IN  IF d.ok THEN Ok(d.val) ELSE Err("FromUTFError")

RECURSIVE ScanLoop(_, _, _, _, _)
\* lines 107-142: the 'outer loop from cursor cin on, and the conversion of
\* the buffer to the returned String
ScanLoop(dir, word, cin, buf, cout) ==
    IF cin >= Len(word) THEN FinishWord(buf, cout)
    ELSE
        LET s == Step(dir, word, cin)
            r == chars_to_utf8(s.emit, buf, cout)
        IN  IF s.err \/ r.err THEN Err("BufferOverflow")
            ELSE ScanLoop(dir, word, cin + s.adv, r.buf, cout + r.n)

\* process_word(&self, word) as a function of the direction and the word
process_word(dir, word) ==
    ScanLoop(dir, word, 0, Zeroes(StrLen(word) * 4), 0)

RECURSIVE ProcessWords(_, _, _)
\* lines 148-154: the loop of process over the words ws, from `acc`
ProcessWords(dir, ws, acc) ==
    IF ws = <<>> THEN Ok(acc)
    ELSE LET res == process_word(dir, Head(ws))
         IN  IF res.tag = "Err" THEN res
             ELSE ProcessWords(dir, Tail(ws), acc \o res.val \o <<SPACE>>)

\* String::pop: the string without its last char, unchanged when empty
Pop(s) == IF s = <<>> THEN s ELSE SubSeq(s, 1, Len(s) - 1)

\* process(&self, input) as a function of the direction and the input
process(dir, inp) ==
    LET r == ProcessWords(dir, split_whitespace(inp), <<>>)
    IN  IF r.tag = "Err" THEN r ELSE Ok(Pop(r.val))

----------------------------------------------------------------------------
(* One call of process, step by step *)

Directions == {"LatinToCyrillic", "CyrillicToLatin"}

\* the strings of at most n chars over an alphabet
Strings(alphabet, n) == UNION {[1..k -> alphabet] : k \in 0..n}

NoStep == [kind |-> "none", at |-> 0, outAt |-> 0, src |-> <<>>, emit |-> <<>>]

\* Transliterate::new(direction) and the call process(input), not yet begun
InitCall(map, n) ==
    /\ charmaps = map
    /\ direction \in Directions
    /\ input \in Strings(IF direction = "LatinToCyrillic" THEN LatinAlphabet
                         ELSE CyrillicAlphabet, n)
    /\ pc = "start"
    /\ words = <<>>
    /\ wi = 0
    /\ chars = <<>>
    /\ out = <<>>
    /\ cursor_in = 0
    /\ cursor_out = 0
    /\ output = <<>>
    /\ ret = NotReturned
    /\ last = NoStep

Init == InitCall("regular", MaxLen)

InitOversized == InitCall("oversized", MaxLenOversized)

\* lines 146-147: the empty output String and the word iterator
Split ==
    /\ pc = "start"
    /\ words' = split_whitespace(input)
    /\ output' = <<>>
    /\ pc' = "next"
    /\ UNCHANGED <<charmaps, direction, input, wi, chars, out, cursor_in,
                   cursor_out, ret, last>>

\* a process_word that keeps one buffer for all words: it grows the buffer
\* for the next word and goes on writing where the last word ended
BeginWordSharedBuffer ==
    /\ pc = "next"
    /\ wi < Len(words)
    /\ wi' = wi + 1
    /\ chars' = words[wi + 1]
    /\ out' = SubSeq(out, 1, cursor_out) \o Zeroes(StrLen(words[wi + 1]) * 4)
    /\ cursor_in' = 0
    /\ last' = NoStep
    /\ pc' = "scan"
    /\ UNCHANGED <<charmaps, direction, input, words, output, ret, cursor_out>>

\* line 148 and lines 100-105: the next word enters process_word, which
\* allocates its buffer and clears its cursors
BeginWord ==
    /\ pc = "next"
    /\ wi < Len(words)
    /\ wi' = wi + 1
    /\ chars' = words[wi + 1]
    /\ out' = Zeroes(StrLen(words[wi + 1]) * 4)
    /\ cursor_in' = 0
    /\ cursor_out' = 0
    /\ last' = NoStep
    /\ pc' = "scan"
    /\ UNCHANGED <<charmaps, direction, input, words, output, ret>>

\* lines 107-138: one pass of the 'outer loop, s being what the pass
\* matched; a failed chars_to_utf8 or digraph_exception ends process with
\* the error (the ? of lines 119, 120, 132, 137 and 149)
Scan(s) ==
    LET r == chars_to_utf8(s.emit, out, cursor_out)
    IN  /\ last' = [kind |-> s.kind, at |-> cursor_in, outAt |-> cursor_out,
                    src |-> s.src, emit |-> s.emit]
        /\ IF s.err \/ r.err
           THEN /\ out' = IF s.err THEN out ELSE r.buf
                /\ ret' = Err("BufferOverflow")
                /\ pc' = "done"
                /\ UNCHANGED <<cursor_in, cursor_out>>
           ELSE /\ out' = r.buf
                /\ cursor_out' = cursor_out + r.n
                /\ cursor_in' = cursor_in + s.adv
                /\ UNCHANGED <<ret, pc>>
        /\ UNCHANGED <<charmaps, direction, input, words, wi, chars, output>>

\* lines 119-122: the Disambiguator returned an override
ScanOverride ==
    /\ pc = "scan"
    /\ cursor_in < Len(chars)
    /\ Step(direction, chars, cursor_in).kind = "override"
    /\ Scan(Step(direction, chars, cursor_in))

\* lines 126-134: the matched entry's target is emitted
ScanMatch ==
    /\ pc = "scan"
    /\ cursor_in < Len(chars)
    /\ Step(direction, chars, cursor_in).kind = "match"
    /\ Scan(Step(direction, chars, cursor_in))

\* lines 137-138: no entry matched
ScanPass ==
    /\ pc = "scan"
    /\ cursor_in < Len(chars)
    /\ Step(direction, chars, cursor_in).kind = "pass"
    /\ Scan(Step(direction, chars, cursor_in))

\* lines 140-142 and 149-153: the loop is over, the word's String is built
\* and appended to output with a space
EndWord ==
    /\ pc = "scan"
    /\ cursor_in >= Len(chars)
    /\ LET res == FinishWord(out, cursor_out)
       IN  IF res.tag = "Err"
           THEN /\ ret' = res
                /\ pc' = "done"
                /\ UNCHANGED output
           ELSE /\ output' = output \o res.val \o <<SPACE>>
                /\ pc' = "next"
                /\ UNCHANGED ret
    /\ UNCHANGED <<charmaps, direction, input, words, wi, chars, out,
                   cursor_in, cursor_out, last>>

\* a process that returns the assembled String with its last separator
FinishKeepsSeparator ==
    /\ pc = "next"
    /\ wi = Len(words)
    /\ output' = output
    /\ ret' = Ok(output)
    /\ pc' = "done"
    /\ UNCHANGED <<charmaps, direction, input, words, wi, chars, out,
                   cursor_in, cursor_out, last>>

\* a process that reports an input without words as Error::EmptyDigest
FinishRejectsEmpty ==
    /\ pc = "next"
    /\ wi = Len(words)
    /\ output' = Pop(output)
    /\ ret' = IF output = <<>> THEN Err("EmptyDigest") ELSE Ok(Pop(output))
    /\ pc' = "done"
    /\ UNCHANGED <<charmaps, direction, input, words, wi, chars, out,
                   cursor_in, cursor_out, last>>

\* lines 155-156: output.pop(); Ok(output)
Finish ==
    /\ pc = "next"
    /\ wi = Len(words)
    /\ output' = Pop(output)
    /\ ret' = Ok(Pop(output))
    /\ pc' = "done"
    /\ UNCHANGED <<charmaps, direction, input, words, wi, chars, out,
                   cursor_in, cursor_out, last>>

Next ==
    \/ Split
    \/ BeginWord
    \/ ScanOverride
    \/ ScanMatch
    \/ ScanPass
    \/ EndWord
    \/ Finish

Spec == Init /\ [][Next]_vars

SpecOversized == InitOversized /\ [][Next]_vars

----------------------------------------------------------------------------
(* Properties *)

\* the bytes the last pass of the loop wrote to the buffer
Written == SubSeq(out, last.outAt + 1, cursor_out)

\* a pass of the loop has acted on the current word and process goes on
Stepped == pc = "scan" /\ last.kind # "none"

\* the entries k matching where the last pass began that extend a shorter
\* registered sequence matching there too
LongerMatches ==
    LET T == TableSrc(direction)
        ms == Matching(direction, chars, last.at)
    IN  {k \in ms : \E i \in ms : Len(T[i]) < Len(T[k]) /\ starts_with(T[k], T[i])}

\* the longer sequence k was consumed and its target, alone, was written
ConsumedAs(k) ==
    /\ last.src = TableSrc(direction)[k]
    /\ cursor_in = last.at + Len(TableSrc(direction)[k])
    /\ Written = Utf8Bytes(TableDst(direction)[k])

\* C1 as stated: wherever a registered sequence and a longer registered
\* sequence it is a proper prefix of both match at the cursor, the pass
\* consumes the longer one and writes its single target
C1_DigraphPrecedenceAlways ==
    (Stepped /\ LongerMatches # {}) => \E k \in LongerMatches : ConsumedAs(k)

\* C1, amended: wherever a registered sequence and a longer registered
\* sequence it is a proper prefix of both match at the cursor, the pass
\* matches the longer one, never the shorter; it consumes it and writes its
\* single target unless the Disambiguator returned an override for it
C1_DigraphPrecedence ==
    (Stepped /\ LongerMatches # {}) =>
        /\ \E k \in LongerMatches : last.src = TableSrc(direction)[k]
        /\ last.kind = "match" => \E k \in LongerMatches : ConsumedAs(k)

\* the digraph nj was met, no override applied, and the pass has acted
C1_Witness ==
    /\ Stepped
    /\ direction = "LatinToCyrillic"
    /\ last.kind = "match"
    /\ last.src = <<LAT_n, LAT_j>>
    /\ LongerMatches # {}

\* a marker of exception e occurs in the word once its letters are folded
\* to lower case
Marked(e) ==
    \E m \in DOMAIN DIGRAPH_EXCEPTIONS[e].exceptions :
        LET w == LowercaseChars(chars)
            mk == DIGRAPH_EXCEPTIONS[e].exceptions[m]
        IN  \E k \in 0..(Len(w) - Len(mk)) : SubSeq(w, k + 1, k + Len(mk)) = mk

\* the exception alternatives <<e, i>> that spell the sequence matched by
\* the last pass, in a word carrying a marker of e
MarkedAlternatives ==
    {h \in UNION {{<<e, i>> : i \in DOMAIN DIGRAPH_EXCEPTIONS[e].latin} :
                  e \in DOMAIN DIGRAPH_EXCEPTIONS} :
        DIGRAPH_EXCEPTIONS[h[1]].latin[h[2]] = last.src /\ Marked(h[1])}

\* C2: Latin to Cyrillic, a pass that matched a table entry writes the
\* exception target of the matched sequence when the lowercased word holds
\* a marker of an Exception Entry listing that sequence, and the table's
\* default target of the sequence when it holds none
C2_ExceptionOverride ==
    (Stepped /\ direction = "LatinToCyrillic" /\ last.kind # "pass") =>
        /\ \A h \in MarkedAlternatives :
               /\ last.kind = "override"
               /\ last.emit = DIGRAPH_EXCEPTIONS[h[1]].cyrillic[h[2]]
               /\ Written = Utf8Bytes(DIGRAPH_EXCEPTIONS[h[1]].cyrillic[h[2]])
        /\ MarkedAlternatives = {} =>
               /\ last.kind = "match"
               /\ \E k \in DOMAIN LATIN_DIRTY :
                      /\ LATIN_DIRTY[k] = last.src
                      /\ Written = Utf8Bytes(CYRILLIC_DIRTY[k])

\* an override was written for a word whose marker shows only after case
\* folding
C2_Witness ==
    /\ Stepped
    /\ direction = "LatinToCyrillic"
    /\ last.kind = "override"
    /\ MarkedAlternatives # {}
    /\ chars # LowercaseChars(chars)
    /\ Written = Utf8Bytes(<<CYR_N, CYR_J>>)

\* C6: a pass that finds no entry of the direction's table matching at the
\* cursor appends exactly the char at the cursor, unchanged, and moves the
\* cursor by one; a call whose input is one word of unmapped chars returns
\* the input
C6_PassThrough ==
    /\ (Stepped /\ Matching(direction, chars, last.at) = {}) =>
           /\ last.kind = "pass"
           /\ cursor_in = last.at + 1
           /\ Written = encode_utf8(chars[last.at + 1])
    /\ (/\ pc = "done"
        /\ input # <<>>
        /\ \A k \in 1..Len(input) :
               /\ ~is_whitespace(input[k])
               /\ \A i \in DOMAIN TableSrc(direction) :
                      \A m \in DOMAIN TableSrc(direction)[i] :
                          TableSrc(direction)[i][m] # input[k])
       => ret = Ok(input)

\* a second unmapped char in a row was passed through, Cyrillic to Latin
C6_Witness ==
    /\ Stepped
    /\ direction = "CyrillicToLatin"
    /\ last.kind = "pass"
    /\ last.at = 1
    /\ cursor_in = 2
    /\ Written = <<DIGIT_1>>
    /\ chars[1] = DIGIT_1

\* C8 as stated: an override pass moves the input cursor by the length of
\* the matched source sequence
C8_OverrideConsumesSource ==
    (Stepped /\ last.kind = "override") =>
        cursor_in = last.at + Len(last.src)

\* C9 as stated: every pass of the loop moves the input cursor forward by
\* at least one and never past the word's char count
C9_CursorWithinWord ==
    /\ cursor_in <= Len(chars)
    /\ Stepped => cursor_in > last.at

\* the chars handed to chars_to_utf8 by the last pass need more bytes than
\* the buffer had left
Overflowed ==
    last.kind # "none" /\ last.outAt + StrLen(last.emit) > Len(out)

\* the chars of the last pass that fit the buffer before the one that did not
Fitted ==
    LET ks == {k \in 0..Len(last.emit) :
                  last.outAt + StrLen(SubSeq(last.emit, 1, k)) <= Len(out)}
    IN  SubSeq(last.emit, 1, CHOOSE k \in ks : \A m \in ks : m <= k)

\* C10: when the bytes of a pass exceed what the word's buffer has left,
\* chars_to_utf8 writes nothing for the char that does not fit, process
\* returns the buffer-overflow error and no output string; a call that
\* returns a string never overflowed
C10_CapacityFailureReported ==
    /\ Overflowed =>
           /\ pc = "done"
           /\ ret = Err("BufferOverflow")
           /\ ret.val = <<>>
           /\ SubSeq(out, last.outAt + 1, last.outAt + StrLen(Fitted))
                  = Utf8Bytes(Fitted)
           /\ \A k \in (last.outAt + StrLen(Fitted) + 1)..Len(out) : out[k] = 0
    /\ ret.tag = "Ok" => ~Overflowed

\* the second word of a call overflowed its buffer after part of the target
\* was written, the first word's result being already in output
C10_Witness ==
    /\ Overflowed
    /\ wi = 2
    /\ output # <<>>
    /\ Fitted # <<>>
    /\ ret = Err("BufferOverflow")

\* the maximal runs of non-whitespace chars of the input, counted
InputRuns ==
    Cardinality({k \in 1..Len(input) :
                    /\ ~is_whitespace(input[k])
                    /\ k = 1 \/ is_whitespace(input[k - 1])})

\* C4: the returned string has no leading or trailing whitespace, exactly
\* one space between consecutive word results, and as many words as the
\* input has maximal non-whitespace runs, in the input's order
C4_WhitespaceNormalized ==
    (pc = "done" /\ ret.tag = "Ok") =>
        LET o == ret.val
            ws == split_whitespace(o)
        IN  /\ o # <<>> => ~is_whitespace(o[1]) /\ ~is_whitespace(o[Len(o)])
            /\ \A k \in 1..Len(o) : is_whitespace(o[k]) =>
                   /\ o[k] = SPACE
                   /\ k < Len(o)
                   /\ ~is_whitespace(o[k + 1])
            /\ Len(ws) = InputRuns
            /\ Len(ws) = Len(words)
            /\ \A k \in 1..Len(ws) :
                   ws[k] = process_word(direction, words[k]).val

\* a call returned for an input with a run of two whitespace chars between
\* two different words
C4_Witness ==
    /\ pc = "done"
    /\ ret.tag = "Ok"
    /\ Len(words) = 2
    /\ words[1] # words[2]
    /\ Len(input) = 4
    /\ is_whitespace(input[2])
    /\ is_whitespace(input[3])
    /\ Len(ret.val) = 3

RECURSIVE JoinSingle(_)
\* the strings of a sequence joined by single spaces
JoinSingle(ss) ==
    IF ss = <<>> THEN <<>>
    ELSE IF Len(ss) = 1 THEN ss[1]
    ELSE ss[1] \o <<SPACE>> \o JoinSingle(Tail(ss))

\* C5: what process returns for the whole input is what process returns
\* for each word alone, joined by single spaces
C5_WordIndependence ==
    pc = "done" =>
        LET each == [k \in 1..Len(words) |-> process(direction, words[k])]
        IN  IF \A k \in 1..Len(words) : each[k].tag = "Ok"
            THEN ret = Ok(JoinSingle([k \in 1..Len(words) |-> each[k].val]))
            ELSE ret.tag = "Err"

\* a call returned whose first word carries the start of a marker and whose
\* second word is the digraph the marker would turn into an override
C5_Witness ==
    /\ pc = "done"
    /\ ret.tag = "Ok"
    /\ direction = "LatinToCyrillic"
    /\ words = << <<LAT_a>>, <<LAT_n, LAT_j>> >>
    /\ ret.val = <<CYR_a, SPACE, CYR_nj>>

\* C7: a call whose input holds no word, the empty string or whitespace
\* only, returns Ok with the empty string
C7_EmptyInput ==
    (pc = "done" /\ \A k \in 1..Len(input) : is_whitespace(input[k])) =>
        ret = Ok(<<>>)

\* a call returned for an input of whitespace only
C7_Witness ==
    /\ pc = "done"
    /\ Len(input) = 2
    /\ \A k \in 1..Len(input) : is_whitespace(input[k])
    /\ ret.tag = "Ok"

\* the direction that undoes dir
Opposite(dir) ==
    IF dir = "LatinToCyrillic" THEN "CyrillicToLatin" ELSE "LatinToCyrillic"

\* the canonical table of the alphabet that dir reads
CleanSrc(dir) == IF dir = "LatinToCyrillic" THEN LATIN_CLEAN ELSE CYRILLIC_CLEAN

\* the chars of the entries of a table
CharsOf(T) == UNION {{T[i][m] : m \in DOMAIN T[i]} : i \in DOMAIN T}

\* c is a canonical-form char for a text that dir reads: a char of the
\* canonical table of its alphabet, or a char that neither alphabet maps
CanonicalChar(dir, c) ==
    \/ c \in CharsOf(CleanSrc(dir))
    \/ c \notin (CharsOf(LATIN_DIRTY) \cup CharsOf(CYRILLIC_CLEAN))

\* the input is words of canonical-form chars separated by single spaces
CanonicalInput ==
    /\ input = JoinSingle(split_whitespace(input))
    /\ \A k \in 1..Len(input) :
           input[k] = SPACE \/ CanonicalChar(direction, input[k])

\* the Latin rendering of one Cyrillic char: its canonical counterpart, or
\* the char itself when the table does not map it
LatinOf(c) ==
    IF \E i \in DOMAIN CYRILLIC_CLEAN : CYRILLIC_CLEAN[i] = <<c>>
    THEN LATIN_CLEAN[CHOOSE i \in DOMAIN CYRILLIC_CLEAN : CYRILLIC_CLEAN[i] = <<c>>]
    ELSE <<c>>

RECURSIVE LatinOfWord(_)
\* the Latin rendering of a Cyrillic word, letter by letter
LatinOfWord(w) ==
    IF w = <<>> THEN <<>> ELSE LatinOf(Head(w)) \o LatinOfWord(Tail(w))

\* a Cyrillic word is ambiguous where a letter and its successor have Latin
\* renderings that run together into a registered Latin sequence reaching
\* beyond the first letter's rendering (n + j reads as the digraph nj), and
\* where a letter's Latin rendering is an alternative of an Exception Entry
\* of which the word's Latin rendering holds a marker (the digraph letter
\* reads as the exception's two letters)
AmbiguousCyrillic(w) ==
    \/ \E k \in 1..(Len(w) - 1) : \E i \in DOMAIN LATIN_DIRTY :
           /\ Len(LATIN_DIRTY[i]) > Len(LatinOf(w[k]))
           /\ starts_with(LatinOf(w[k]) \o LatinOf(w[k + 1]), LATIN_DIRTY[i])
    \/ \E k \in 1..Len(w) : \E e \in DOMAIN DIGRAPH_EXCEPTIONS :
           /\ \E i \in DOMAIN DIGRAPH_EXCEPTIONS[e].latin :
                  DIGRAPH_EXCEPTIONS[e].latin[i] = LatinOf(w[k])
           /\ \E m \in DOMAIN DIGRAPH_EXCEPTIONS[e].exceptions :
                  LET lw == LowercaseChars(LatinOfWord(w))
                      mk == DIGRAPH_EXCEPTIONS[e].exceptions[m]
                  IN  \E j \in 0..(Len(lw) - Len(mk)) :
                          SubSeq(lw, j + 1, j + Len(mk)) = mk

\* a Latin word is ambiguous where a sequence registered in denormalized
\* form only occurs in it (N + J reads as a spelling of the digraph Nj)
AmbiguousLatin(w) ==
    \E k \in 0..(Len(w) - 1) : \E i \in DOMAIN LATIN_DIRTY :
        /\ \A m \in DOMAIN LATIN_CLEAN : LATIN_CLEAN[m] # LATIN_DIRTY[i]
        /\ starts_with(Rest(w, k), LATIN_DIRTY[i])

\* a word of the input is ambiguous in the alphabet the direction reads
Ambiguous ==
    \E k \in 1..Len(words) :
        IF direction = "LatinToCyrillic" THEN AmbiguousLatin(words[k])
        ELSE AmbiguousCyrillic(words[k])

\* C3 as stated: for every input of canonical-form chars, words separated
\* by single spaces, transliterating the result back with the opposite
\* direction reproduces the input, from Latin and from Cyrillic
C3_RoundTripAlways ==
    (pc = "done" /\ ret.tag = "Ok" /\ CanonicalInput) =>
        process(Opposite(direction), ret.val) = Ok(input)

\* C3, amended: the round trip reproduces every input of canonical-form
\* chars, words separated by single spaces, none of whose words is
\* ambiguous: from Cyrillic, no letter pair whose Latin renderings run
\* together into a registered Latin sequence and no digraph letter in a word
\* whose Latin rendering holds a marker of its exception; from Latin, no
\* sequence registered in denormalized form only
C3_RoundTrip ==
    (pc = "done" /\ ret.tag = "Ok" /\ CanonicalInput /\ ~Ambiguous) =>
        process(Opposite(direction), ret.val) = Ok(input)

\* a call returned for a canonical Latin word whose digraph was written as
\* two letters by an override, and the way back restores the digraph
C3_Witness ==
    /\ pc = "done"
    /\ ret.tag = "Ok"
    /\ CanonicalInput
    /\ ~Ambiguous
    /\ direction = "LatinToCyrillic"
    /\ last.kind = "override"
    /\ Len(words) = 1
    /\ ret.val = <<CYR_a, CYR_n, CYR_j>>

====
